---- MODULE Spec2Model ----
(***************************************************************************)
(* A model of src/water.js: the WaterScene render loop (animate), the      *)
(* resize handler (onWindowResize), the THREE.Clock it samples, and the    *)
(* water vertex / fragment shaders up to the depth/surface colour blend.   *)
(*                                                                         *)
(* Numbers: every float of the program is a fixed-point integer in         *)
(* thousandths (0.15 is 150, 2.0 is 2000); times are milliseconds, so an   *)
(* elapsed time in seconds times 1000 is the millisecond count.  Angles    *)
(* are milliradians.  Products of two fixed-point numbers are rescaled by  *)
(* Mul.  The JavaScript callbacks run to completion on one event loop;     *)
(* each statement of a callback is one step, and a callback is dispatched  *)
(* only when no other callback is on the stack.                            *)
(***************************************************************************)
EXTENDS Integers, Sequences, FiniteSets, TLC

VARIABLES
    now,          \* performance.now(), in ticks of TickMs milliseconds
    clock,        \* this.clock (THREE.Clock)
    animPc,       \* 0: animate not running; i: about to run AnimateBody[i]
    resizePc,     \* 0: onWindowResize not running; i: about to run ResizeBody[i]
    rafPending,   \* frame callbacks registered with requestAnimationFrame
    elapsedTime,  \* animate's local const elapsedTime (-1: not yet assigned)
    frameLog,     \* the statements the current/last animate call has executed
    win,          \* <<window.innerWidth, window.innerHeight>>
    camera,       \* this.camera: aspect, the aspect baked in the projection matrix, position
    renderer,     \* this.renderer: size
    uniforms,     \* this.waterMesh.material.uniforms
    geometry,     \* the water PlaneGeometry's parameters
    scene,        \* this.scene: objects and fog
    lastFrame,    \* what the last renderer.render call read and drew from
    frames,       \* number of frames rendered, saturating at MaxFrames
    probe         \* shader test bench (idle in the program's own specifications)

vars == <<now, clock, animPc, resizePc, rafPending, elapsedTime, frameLog, win,
          camera, renderer, uniforms, geometry, scene, lastFrame, frames, probe>>

progVars == <<now, clock, animPc, resizePc, rafPending, elapsedTime, frameLog, win,
              camera, renderer, uniforms, geometry, scene, lastFrame, frames>>

----------------------------------------------------------------------------
(* Bounds of the model *)

MaxNow == 4
TickMs == 700
MaxFrames == 4

(* Viewport sizes the window can take; the first is the size at start-up. *)
WinSizes == << <<800, 600>>, <<400, 300>>, <<600, 800>> >>

(* Camera positions OrbitControls can move the camera to (whole units).  *)
CamPositions == { <<10, 8, 10>>, <<5, 8, 5>> }

(* Grid vertices <<ix, iy>> whose shading is recorded for each frame.     *)
GridSamples == { <<0, 0>>, <<64, 64>>, <<70, 64>>, <<128, 128>> }

----------------------------------------------------------------------------
(* Fixed-point arithmetic *)

Abs(a) == IF a < 0 THEN -a ELSE a

Min(a, b) == IF a < b THEN a ELSE b

Max(a, b) == IF a > b THEN a ELSE b

(* a * b for two numbers in thousandths *)
Mul(a, b) == (a * b) \div 1000

RECURSIVE GCD(_, _)
GCD(a, b) == IF b = 0 THEN a ELSE GCD(b, a % b)

(* w / h as a fraction in lowest terms, so that 800/600 = 400/300 *)
Ratio(w, h) == LET g == GCD(w, h) IN <<w \div g, h \div g>>

(* sin of p milliradians, in thousandths: range reduction to a half period *)
(* of 3142 and Bhaskara's rational approximation 16x(pi-x)/(5pi^2-4x(pi-x)) *)
SinM(p) ==
    LET r == p % 6284
        x == IF r < 3142 THEN r ELSE r - 3142
        q == x * (3142 - x)
        d == 5 * 3142 * 3142 - 4 * q
        v == (1000 * (q \div 16)) \div (d \div 256)
    IN  IF r < 3142 THEN v ELSE -v

CosM(p) == SinM(p + 1571)

----------------------------------------------------------------------------
(* The water vertex shader (waterVertexShader, main) *)

smallFrequency == 8000
smallAmplitude == 150
mediumFrequency == 4000
mediumAmplitude == 250
largeFrequency1 == 2000
largeFrequency2 == 1500
largeAmplitude == 400

(* u is the material's uniforms; x, y are the vertex attribute's first two *)
(* coordinates; all in thousandths.                                        *)

(* Small ripples - primary wave pattern *)
SmallWave(x, y, u) ==
    LET tS == Mul(u.uTime, u.uSmallWaveSpeed)
    IN  Mul(Mul(SinM(Mul(x, smallFrequency) + tS),
                CosM(Mul(Mul(y, smallFrequency), 500) + Mul(tS, 800))),
            smallAmplitude)

(* Medium ripples - secondary wave pattern *)
MediumWave(x, y, u) ==
    LET tS == Mul(u.uTime, u.uSmallWaveSpeed)
    IN  Mul(SinM(Mul(x, mediumFrequency) + Mul(Mul(y, mediumFrequency), 300)
                 + Mul(tS, 1200)),
            mediumAmplitude)

(* Large ripples *)
LargeWave1(x, y, u) ==
    LET tL == Mul(u.uTime, u.uLargeWaveSpeed)
    IN  Mul(Mul(SinM(Mul(x, largeFrequency1) + tL),
                CosM(Mul(Mul(y, largeFrequency1), 400) + Mul(tL, 600))),
            largeAmplitude)

(* The same with the time term written outside the sine *)
LargeWave2TimeOutsideSine(x, y, u) ==
    LET tL == Mul(u.uTime, u.uLargeWaveSpeed)
    IN  Mul(Mul(SinM(Mul(Mul(x, largeFrequency2), 1300)
                     + Mul(Mul(y, largeFrequency2), 200)) + Mul(tL, 800),
                largeAmplitude),
            700)

LargeWave2(x, y, u) ==
    LET tL == Mul(u.uTime, u.uLargeWaveSpeed)
    IN  Mul(Mul(SinM(Mul(Mul(x, largeFrequency2), 1300)
                     + Mul(Mul(y, largeFrequency2), 200) + Mul(tL, 800)),
                largeAmplitude),
            700)

(* Combine all waves *)
CombinedWave(x, y, u) ==
    SmallWave(x, y, u) + Mul(MediumWave(x, y, u), 600)
    + Mul(LargeWave1(x, y, u), 500) + Mul(LargeWave2(x, y, u), 400)

(* Subtle position-based variation *)
PositionVariation(x, y) == Mul(Mul(SinM(Mul(x, 500)), CosM(Mul(y, 500))), 100)

(* A vertex stage whose elevation also reads the colour offset *)
VertexShaderReadingColourOffset(position, env) ==
    LET x == position[1]
        y == position[2]
        d == CombinedWave(x, y, env.uniforms) + PositionVariation(x, y)
        posz == position[3] + d + env.uniforms.uColorOffset
    IN  [ displacement |-> d + env.uniforms.uColorOffset,
          vElevation   |-> posz,
          vPosition    |-> <<x, y, posz>> ]

(* main() of the vertex shader.  env is everything a shader stage could   *)
(* read: the material's uniforms, the camera and the renderer.  position  *)
(* is the vertex attribute <<x, y, z>>.  pos.z += combinedWave +          *)
(* positionVariation; vElevation = pos.z; vPosition = pos.                *)
VertexShader(position, env) ==
    LET x == position[1]
        y == position[2]
        d == CombinedWave(x, y, env.uniforms) + PositionVariation(x, y)
        posz == position[3] + d
    IN  [ displacement |-> d,
          vElevation   |-> posz,
          vPosition    |-> <<x, y, posz>> ]

----------------------------------------------------------------------------
(* The water fragment shader (waterFragmentShader, main), lines 73-77 *)

(* A clamp that forgets the upper bound *)
ClampLowerOnly(x, lo, hi) == Max(x, lo)

(* GLSL clamp(x, lo, hi) *)
Clamp(x, lo, hi) == Min(Max(x, lo), hi)

FragmentShader(vElevation, env) ==
    LET u == env.uniforms
        mixStrength0 == Mul(vElevation + u.uColorOffset, u.uColorMultiplier)
        mixStrength == Clamp(mixStrength0, 0, 1000)
    IN  [ mixStrength |-> mixStrength,
          mixFactor   |-> mixStrength + 500 ]

----------------------------------------------------------------------------
(* Objects built by the constructor: init() and createWater() *)

(* new THREE.Clock(): autoStart, not yet running *)
NewClock == [ autoStart |-> TRUE, running |-> FALSE,
              startTime |-> 0, oldTime |-> 0, elapsedTime |-> 0 ]

(* A clock read that returns the time since the previous read (getDelta) *)
ClockElapsedIsDelta(c, t) ==
    IF c.autoStart /\ ~c.running
    THEN [c EXCEPT !.startTime = t, !.oldTime = t, !.elapsedTime = 0,
                   !.running = TRUE]
    ELSE [c EXCEPT !.oldTime = t, !.elapsedTime = t - c.oldTime]

(* clock.getElapsedTime() at time t (milliseconds): the clock afterwards; *)
(* the call returns its elapsedTime.  The first call starts the clock.    *)
ClockGetElapsedTime(c, t) ==
    IF c.autoStart /\ ~c.running
    THEN [c EXCEPT !.startTime = t, !.oldTime = t, !.elapsedTime = 0,
                   !.running = TRUE]
    ELSE IF c.running
         THEN [c EXCEPT !.oldTime = t,
                        !.elapsedTime = c.elapsedTime + (t - c.oldTime)]
         ELSE c

(* new THREE.PerspectiveCamera(75, w / h, 0.1, 1000), position (10, 8, 10) *)
NewCamera(size) ==
    [ aspect     |-> Ratio(size[1], size[2]),
      projAspect |-> Ratio(size[1], size[2]),
      position   |-> <<10, 8, 10>> ]

(* new THREE.WebGLRenderer(...); setSize(w, h) *)
NewRenderer(size) == [ size |-> size ]

(* new THREE.PlaneGeometry(50, 50, 128, 128); rotateX(-PI / 2) *)
WaterGeometry ==
    [ width |-> 50000, height |-> 50000,
      widthSegments |-> 128, heightSegments |-> 128 ]

(* The position attribute of grid vertex <<ix, iy>>: PlaneGeometry puts it *)
(* at (x, y, 0); rotateX(-PI/2) maps (x, y, z) to (x, z, -y).              *)
VertexPosition(g, v) ==
    LET x == (v[1] * g.width) \div g.widthSegments - g.width \div 2
        y == g.height \div 2 - (v[2] * g.height) \div g.heightSegments
    IN  <<x, 0, -y>>

(* A uniform given a copy of the camera's coordinates (position.clone()) *)
CameraPositionClone(cam) == [ ref |-> FALSE, snap |-> cam.position ]

(* The cameraPosition uniform holds the camera's own Vector3 (a reference, *)
(* ref = TRUE), not a copy of its coordinates (ref = FALSE, snap).         *)
CameraPositionValue(cam) == [ ref |-> TRUE, snap |-> <<0, 0, 0>> ]

(* The colour configuration createWater gives the material *)
CreatedColours ==
    [ uDepthColor |-> 30654, uSurfaceColor |-> 5428213,
      uColorOffset |-> 100, uColorMultiplier |-> 3000 ]

(* uniforms: { ... } of the ShaderMaterial, for a colour configuration *)
CreatedUniforms(cam, colours) ==
    [ uTime            |-> 0,
      uSmallWaveSpeed  |-> 2000,
      uLargeWaveSpeed  |-> 1000,
      uDepthColor      |-> colours.uDepthColor,
      uSurfaceColor    |-> colours.uSurfaceColor,
      uColorOffset     |-> colours.uColorOffset,
      uColorMultiplier |-> colours.uColorMultiplier,
      cameraPosition   |-> CameraPositionValue(cam) ]

(* scene.add(...) of createWater and setupLighting; scene.fog *)
CreatedScene ==
    [ objects |-> { "waterMesh", "underMesh", "ambientLight",
                    "directionalLight", "hemisphereLight" },
      fog     |-> [ color |-> 14743546, near |-> 20, far |-> 80 ] ]

(* What the shading stage reads through a uniform holding a vector *)
Deref(value, cam) == IF value.ref THEN cam.position ELSE value.snap

(* renderer.render(scene, camera): the frame drawn.  The render reads the *)
(* uniforms, the camera, the renderer and the geometry as they are at the *)
(* call; cameraPosition is what the shading stage receives for that       *)
(* uniform.                                                               *)
RenderFrame(u, cam, rend, g) ==
    [ uniforms       |-> u,
      camera         |-> cam,
      renderer       |-> rend,
      geometry       |-> g,
      cameraPosition |-> Deref(u.cameraPosition, cam) ]

(* What the shader stages of frame f read *)
FrameEnv(f) == [ uniforms |-> f.uniforms, camera |-> f.camera, renderer |-> f.renderer ]

(* The vertex stage's output for grid vertex v in frame f *)
FrameVertex(f, v) == VertexShader(VertexPosition(f.geometry, v), FrameEnv(f))

(* The fragment stage's output at grid vertex v in frame f *)
FrameFragment(f, v) == FragmentShader(FrameVertex(f, v).vElevation, FrameEnv(f))

NowMs == now * TickMs

(* The statements of animate(), in program order *)
AnimateBody == << "requestAnimationFrame", "getElapsedTime", "updateUniforms",
                  "controlsUpdate", "render" >>

(* The statements of onWindowResize(), in program order *)
ResizeBody == << "setAspect", "updateProjectionMatrix", "setSize" >>

ProbeOff == [ phase |-> "off" ]

(* The state when the constructor returns: init() built the objects and   *)
(* the first animate() call ran to its end at time 0: it requested a      *)
(* frame, started the clock (elapsed 0) and rendered once.                *)
InitWith(colours) ==
    /\ now = 0
    /\ clock = ClockGetElapsedTime(NewClock, 0)
    /\ animPc = 0
    /\ resizePc = 0
    /\ rafPending = 1
    /\ elapsedTime = 0
    /\ frameLog = AnimateBody
    /\ win = WinSizes[1]
    /\ camera = NewCamera(WinSizes[1])
    /\ renderer = NewRenderer(WinSizes[1])
    /\ uniforms = CreatedUniforms(NewCamera(WinSizes[1]), colours)
    /\ geometry = WaterGeometry
    /\ scene = CreatedScene
    /\ lastFrame = RenderFrame(CreatedUniforms(NewCamera(WinSizes[1]), colours),
                               NewCamera(WinSizes[1]), NewRenderer(WinSizes[1]),
                               WaterGeometry)
    /\ frames = 1

Init == InitWith(CreatedColours) /\ probe = ProbeOff


----------------------------------------------------------------------------
(* The event loop: callbacks run to completion, one at a time *)

EventLoopIdle == animPc = 0 /\ resizePc = 0

AnimStmt == IF animPc \in 1..Len(AnimateBody) THEN AnimateBody[animPc] ELSE "none"

ResizeStmt == IF resizePc \in 1..Len(ResizeBody) THEN ResizeBody[resizePc] ELSE "none"

AnimAdvance ==
    /\ animPc' = IF animPc = Len(AnimateBody) THEN 0 ELSE animPc + 1
    /\ frameLog' = Append(frameLog, AnimStmt)

ResizeAdvance == resizePc' = IF resizePc = Len(ResizeBody) THEN 0 ELSE resizePc + 1

(* performance.now() advances, at any moment *)
Tick ==
    /\ now < MaxNow
    /\ now' = now + 1
    /\ UNCHANGED <<clock, animPc, resizePc, rafPending, elapsedTime, frameLog, win,
                   camera, renderer, uniforms, geometry, scene, lastFrame, frames,
                   probe>>

(* The browser's frame signal runs a callback registered with             *)
(* requestAnimationFrame: () => this.animate()                            *)
FrameSignal ==
    /\ EventLoopIdle
    /\ rafPending > 0
    /\ rafPending' = rafPending - 1
    /\ animPc' = 1
    /\ elapsedTime' = -1
    /\ frameLog' = <<>>
    /\ UNCHANGED <<now, clock, resizePc, win, camera, renderer, uniforms, geometry,
                   scene, lastFrame, frames, probe>>

(* The window takes size WinSizes[i] and the 'resize' listener registered *)
(* in init() is called: () => this.onWindowResize()                       *)
ResizeEvent ==
    /\ EventLoopIdle
    /\ \E i \in 1..Len(WinSizes) : win' = WinSizes[i]
    /\ resizePc' = 1
    /\ UNCHANGED <<now, clock, animPc, rafPending, elapsedTime, frameLog, camera,
                   renderer, uniforms, geometry, scene, lastFrame, frames, probe>>

----------------------------------------------------------------------------
(* animate(), statement by statement *)

(* An animate that registers no callback *)
ScheduleFrameDropped(pending) == pending

(* requestAnimationFrame(() => this.animate()) registers one callback *)
ScheduleFrame(pending) == pending + 1

RequestAnimationFrame ==
    /\ AnimStmt = "requestAnimationFrame"
    /\ rafPending' = ScheduleFrame(rafPending)
    /\ AnimAdvance
    /\ UNCHANGED <<now, clock, resizePc, elapsedTime, win, camera, renderer,
                   uniforms, geometry, scene, lastFrame, frames, probe>>

(* const elapsedTime = this.clock.getElapsedTime() *)
GetElapsedTime ==
    /\ AnimStmt = "getElapsedTime"
    /\ clock' = ClockGetElapsedTime(clock, NowMs)
    /\ elapsedTime' = clock'.elapsedTime
    /\ AnimAdvance
    /\ UNCHANGED <<now, resizePc, rafPending, win, camera, renderer, uniforms,
                   geometry, scene, lastFrame, frames, probe>>

(* An update that also rescales the small-wave speed *)
UpdateUniformsAlsoTuning ==
    /\ AnimStmt = "updateUniforms"
    /\ uniforms' = [uniforms EXCEPT !.uTime = elapsedTime,
                                    !.cameraPosition = CameraPositionValue(camera),
                                    !.uSmallWaveSpeed = 2000 + elapsedTime]
    /\ AnimAdvance
    /\ UNCHANGED <<now, clock, resizePc, rafPending, elapsedTime, win, camera,
                   renderer, geometry, scene, lastFrame, frames, probe>>

(* if (this.waterMesh) { uniforms.uTime.value = elapsedTime;              *)
(*                       uniforms.cameraPosition.value = camera.position } *)
UpdateUniforms ==
    /\ AnimStmt = "updateUniforms"
    /\ uniforms' = IF "waterMesh" \in scene.objects
                   THEN [uniforms EXCEPT !.uTime = elapsedTime,
                                         !.cameraPosition = CameraPositionValue(camera)]
                   ELSE uniforms
    /\ AnimAdvance
    /\ UNCHANGED <<now, clock, resizePc, rafPending, elapsedTime, win, camera,
                   renderer, geometry, scene, lastFrame, frames, probe>>

(* this.controls.update(): OrbitControls may move the camera, writing the *)
(* new coordinates into the camera's position vector in place             *)
ControlsUpdate ==
    /\ AnimStmt = "controlsUpdate"
    /\ \E p \in CamPositions : camera' = [camera EXCEPT !.position = p]
    /\ AnimAdvance
    /\ UNCHANGED <<now, clock, resizePc, rafPending, elapsedTime, win, renderer,
                   uniforms, geometry, scene, lastFrame, frames, probe>>

(* this.renderer.render(this.scene, this.camera) *)
Render ==
    /\ AnimStmt = "render"
    /\ lastFrame' = RenderFrame(uniforms, camera, renderer, geometry)
    /\ frames' = Min(frames + 1, MaxFrames)
    /\ AnimAdvance
    /\ UNCHANGED <<now, clock, resizePc, rafPending, elapsedTime, win, camera,
                   renderer, uniforms, geometry, scene, probe>>

----------------------------------------------------------------------------
(* onWindowResize(), statement by statement *)

(* An aspect computed as height / width *)
SetAspectInverted ==
    /\ ResizeStmt = "setAspect"
    /\ camera' = [camera EXCEPT !.aspect = Ratio(win[2], win[1])]
    /\ ResizeAdvance
    /\ UNCHANGED <<now, clock, animPc, rafPending, elapsedTime, frameLog, win,
                   renderer, uniforms, geometry, scene, lastFrame, frames, probe>>

(* this.camera.aspect = window.innerWidth / window.innerHeight *)
SetAspect ==
    /\ ResizeStmt = "setAspect"
    /\ camera' = [camera EXCEPT !.aspect = Ratio(win[1], win[2])]
    /\ ResizeAdvance
    /\ UNCHANGED <<now, clock, animPc, rafPending, elapsedTime, frameLog, win,
                   renderer, uniforms, geometry, scene, lastFrame, frames, probe>>

(* this.camera.updateProjectionMatrix() *)
UpdateProjectionMatrix ==
    /\ ResizeStmt = "updateProjectionMatrix"
    /\ camera' = [camera EXCEPT !.projAspect = camera.aspect]
    /\ ResizeAdvance
    /\ UNCHANGED <<now, clock, animPc, rafPending, elapsedTime, frameLog, win,
                   renderer, uniforms, geometry, scene, lastFrame, frames, probe>>

(* A handler whose last statement leaves the renderer as it was *)
SetSizeOmitted ==
    /\ ResizeStmt = "setSize"
    /\ ResizeAdvance
    /\ UNCHANGED <<now, clock, animPc, rafPending, elapsedTime, frameLog, win,
                   camera, renderer, uniforms, geometry, scene, lastFrame, frames,
                   probe>>

(* this.renderer.setSize(window.innerWidth, window.innerHeight) *)
SetSize ==
    /\ ResizeStmt = "setSize"
    /\ renderer' = [renderer EXCEPT !.size = win]
    /\ ResizeAdvance
    /\ UNCHANGED <<now, clock, animPc, rafPending, elapsedTime, frameLog, win,
                   camera, uniforms, geometry, scene, lastFrame, frames, probe>>

----------------------------------------------------------------------------
(* The program *)

Next ==
    \/ Tick
    \/ FrameSignal
    \/ ResizeEvent
    \/ RequestAnimationFrame
    \/ GetElapsedTime
    \/ UpdateUniforms
    \/ ControlsUpdate
    \/ Render
    \/ SetAspect
    \/ UpdateProjectionMatrix
    \/ SetSize

Spec == Init /\ [][Next]_vars


(* A statement of the callback that is on the stack *)
Statement ==
    \/ RequestAnimationFrame
    \/ GetElapsedTime
    \/ UpdateUniforms
    \/ ControlsUpdate
    \/ Render
    \/ SetAspect
    \/ UpdateProjectionMatrix
    \/ SetSize

(* The browser delivers frame signals fairly (a callback registered with  *)
(* requestAnimationFrame is run, however many resize events arrive), and  *)
(* a callback that has started runs to its end.                           *)
FairSpec == Spec /\ SF_vars(FrameSignal) /\ WF_vars(Statement)

----------------------------------------------------------------------------
(* The program built with other colour configurations *)

ColourConfigs ==
    { CreatedColours,
      [ uDepthColor |-> 0, uSurfaceColor |-> 16777215,
        uColorOffset |-> -500, uColorMultiplier |-> 1000 ],
      [ uDepthColor |-> 5428213, uSurfaceColor |-> 30654,
        uColorOffset |-> 2000, uColorMultiplier |-> -3000 ] }

ConfigInit ==
    /\ \E colours \in ColourConfigs : InitWith(colours)
    /\ probe = ProbeOff

ConfigSpec == ConfigInit /\ [][Next]_vars

----------------------------------------------------------------------------
(* A bench that runs the two shader stages on chosen inputs *)

ProbePositions ==
    { <<x, y, z>> : x \in {-25000, -1234, 0, 400, 25000},
                    y \in {-25000, 0, 777},
                    z \in {0, 25000} }

(* Elapsed times in milliseconds, up to about a quarter of an hour *)
ProbeTimes == {0, 1, 999, 6283, 500000, 890000}

ProbeOffsets == {-100000, -100, 0, 100, 100000}

ProbeMultipliers == {-10000, 0, 3000, 10000}

(* Elevations handed to the fragment stage in place of the vertex stage's *)
ProbeElevations == {-100000, 0, 100000}

ProbeEnv(pr) ==
    [ uniforms |-> [ CreatedUniforms(camera,
                        [ CreatedColours EXCEPT !.uColorOffset = pr.uColorOffset,
                                                !.uColorMultiplier = pr.uColorMultiplier ])
                     EXCEPT !.uTime = pr.uTime ],
      camera   |-> camera,
      renderer |-> renderer ]

ShaderInit ==
    /\ InitWith(CreatedColours)
    /\ probe \in [ phase : {"input"}, position : ProbePositions, uTime : ProbeTimes,
                   uColorOffset : ProbeOffsets, uColorMultiplier : ProbeMultipliers,
                   useVertex : BOOLEAN, elevation : ProbeElevations,
                   vertex : {[displacement |-> 0, vElevation |-> 0,
                              vPosition |-> <<0, 0, 0>>]},
                   fragment : {[mixStrength |-> 0, mixFactor |-> 0]} ]

(* The vertex stage on the probe's position and time *)
ProbeVertex ==
    /\ probe.phase = "input"
    /\ probe' = [probe EXCEPT !.phase = "vertex",
                              !.vertex = VertexShader(probe.position, ProbeEnv(probe))]
    /\ UNCHANGED progVars

(* The fragment stage on the interpolated elevation, or on a chosen one *)
ProbeFragment ==
    /\ probe.phase = "vertex"
    /\ probe' = [probe EXCEPT !.phase = "fragment",
                              !.fragment = FragmentShader(
                                  IF probe.useVertex THEN probe.vertex.vElevation
                                                     ELSE probe.elevation,
                                  ProbeEnv(probe))]
    /\ UNCHANGED progVars

ShaderNext == ProbeVertex \/ ProbeFragment

ShaderSpec == ShaderInit /\ [][ShaderNext]_vars

----------------------------------------------------------------------------
(* Properties *)

(* A resize has been handled and time has passed since start-up *)
ResizedAndTimePassed ==
    /\ renderer.size # WinSizes[1]
    /\ lastFrame.renderer.size # WinSizes[1]
    /\ lastFrame.uniforms.uTime > 0

(* C1: the value written to uTime never decreases from one frame to the   *)
(* next, with resize events interleaved in any order: no step lowers the  *)
(* uniform or the time of the rendered frame, and a step that changes     *)
(* uTime is animate's uniform update, never a statement of the resize     *)
(* handler.                                                               *)
C1_TimeNeverDecreases ==
    [][ /\ uniforms'.uTime >= uniforms.uTime
        /\ lastFrame'.uniforms.uTime >= lastFrame.uniforms.uTime
        /\ (uniforms'.uTime # uniforms.uTime
              => AnimStmt = "updateUniforms" /\ resizePc = 0 /\ resizePc' = 0) ]_vars

C1_Witness == ResizedAndTimePassed /\ frames >= 3 /\ EventLoopIdle

(* C2: after the constructor the loop never stops: in every reachable     *)
(* state a frame callback is pending, or the running animate call is      *)
(* about to register one; and under fair delivery of frame signals a      *)
(* frame is rendered infinitely often.                                    *)
C2_ContinuousRender ==
    /\ [](rafPending >= 1 \/ AnimStmt = "requestAnimationFrame")
    /\ []<><<Render>>_vars

C2_Witness ==
    /\ EventLoopIdle
    /\ rafPending = 1
    /\ frames >= 3
    /\ renderer.size = WinSizes[3]

(* C3: a resize is never applied in the middle of a frame evaluation: the *)
(* resize handler and animate are never both running, and every rendered  *)
(* frame used a projection whose aspect is the width/height ratio of the  *)
(* output buffer it was rendered into.                                    *)
C3_ResizeBetweenFrames ==
    /\ ~(animPc # 0 /\ resizePc # 0)
    /\ lastFrame.camera.projAspect
         = Ratio(lastFrame.renderer.size[1], lastFrame.renderer.size[2])

C3_Witness ==
    /\ lastFrame.renderer.size = WinSizes[3]
    /\ lastFrame.camera.projAspect = <<3, 4>>
    /\ frames >= 2

ElevationOf(p, t, smallSpeed, largeSpeed) ==
    VertexShader(p, [ uniforms |-> [ uTime |-> t, uSmallWaveSpeed |-> smallSpeed,
                                      uLargeWaveSpeed |-> largeSpeed,
                                      uDepthColor |-> 0, uSurfaceColor |-> 0,
                                      uColorOffset |-> 0, uColorMultiplier |-> 0,
                                      cameraPosition |-> [ref |-> FALSE,
                                                          snap |-> <<0, 0, 0>>] ],
                      camera |-> [ aspect |-> <<1, 1>>, projAspect |-> <<1, 1>>,
                                   position |-> <<0, 0, 0>> ],
                      renderer |-> [ size |-> <<1, 1>> ] ]).vElevation

(* C5: the elevation of every vertex of a rendered frame is determined by *)
(* the vertex position, the frame's elapsed time and the wave speeds      *)
(* alone: whatever the colour configuration the program was built with,   *)
(* and whatever frames, resizes and camera moves came before, it is the   *)
(* value computed from those three with everything else fixed.            *)
C5_ElevationDependsOnlyOnPositionTime ==
    \A v \in GridSamples :
        FrameVertex(lastFrame, v).vElevation =
            ElevationOf(VertexPosition(geometry, v), lastFrame.uniforms.uTime,
                        uniforms.uSmallWaveSpeed, uniforms.uLargeWaveSpeed)

C5_Witness ==
    /\ uniforms.uColorOffset # CreatedColours.uColorOffset
    /\ lastFrame.uniforms.uTime > 0
    /\ lastFrame.renderer.size # WinSizes[1]
    /\ lastFrame.camera.position # <<10, 8, 10>>
    /\ \E v \in GridSamples : FrameVertex(lastFrame, v).displacement # 0

(* The claimed bound: component amplitudes (about 1.5) plus 0.1 *)
DisplacementBound == 1500 + 100

(* C6: for every position and every elapsed time, the absolute value of   *)
(* the displacement added to a vertex is at most 1.5 + 0.1.               *)
C6_DisplacementBounded ==
    probe.phase \in {"vertex", "fragment"}
        => Abs(probe.vertex.displacement) <= DisplacementBound

C6_Witness ==
    /\ probe.phase = "vertex"
    /\ probe.uTime >= 500000
    /\ Abs(probe.vertex.displacement) > 250

(* C7: for every elevation, colour offset and colour multiplier,          *)
(* mixStrength after the clamp is in [0, 1].                              *)
C7_MixStrengthInUnitRange ==
    probe.phase = "fragment"
        => probe.fragment.mixStrength >= 0 /\ probe.fragment.mixStrength <= 1000

C7_Witness ==
    /\ probe.phase = "fragment"
    /\ ~probe.useVertex
    /\ Mul(probe.elevation + probe.uColorOffset, probe.uColorMultiplier) > 1000
    /\ probe.fragment.mixStrength = 1000

(* C8: the wave speeds, the colour configuration and the grid topology    *)
(* keep the values createWater gave them in every reachable state, and a  *)
(* statement of animate changes no uniform other than uTime and           *)
(* cameraPosition.                                                        *)
C8_ConfigurationFixed ==
    /\ [](/\ uniforms.uSmallWaveSpeed = 2000
          /\ uniforms.uLargeWaveSpeed = 1000
          /\ uniforms.uDepthColor = 30654
          /\ uniforms.uSurfaceColor = 5428213
          /\ uniforms.uColorOffset = 100
          /\ uniforms.uColorMultiplier = 3000
          /\ geometry = [ width |-> 50000, height |-> 50000,
                          widthSegments |-> 128, heightSegments |-> 128 ])
    /\ [][ \A f \in DOMAIN uniforms \ {"uTime", "cameraPosition"} :
              uniforms'[f] = uniforms[f] ]_vars

C8_Witness ==
    /\ frames >= 3
    /\ uniforms.uTime > 0
    /\ renderer.size = WinSizes[2]
    /\ animPc = 0

(* C9: the factor passed to the depth-colour/surface-colour blend lies in *)
(* [0, 1] for every vertex of every rendered frame (the +0.5 bias being   *)
(* added before the clamp).                                               *)
C9_BlendFactorInUnitRange ==
    \A v \in GridSamples :
        /\ FrameFragment(lastFrame, v).mixFactor >= 0
        /\ FrameFragment(lastFrame, v).mixFactor <= 1000

IsFrameStep(s) == s \in {"getElapsedTime", "updateUniforms", "render"}

(* C10: when a frame callback has returned, it has sampled the clock,     *)
(* then written the uniforms, then rendered, each exactly once and in     *)
(* that order; the rendered frame's time is the time sampled in that      *)
(* callback; and the camera position the shading stage saw is the         *)
(* camera's position at render time.                                      *)
C10_FrameStepsInOrder ==
    animPc = 0 =>
        /\ SelectSeq(frameLog, IsFrameStep)
             = <<"getElapsedTime", "updateUniforms", "render">>
        /\ elapsedTime = clock.elapsedTime
        /\ lastFrame.uniforms.uTime = elapsedTime
        /\ lastFrame.cameraPosition = lastFrame.camera.position
        /\ lastFrame.camera.position = camera.position

C10_Witness ==
    /\ animPc = 0
    /\ frames >= 2
    /\ lastFrame.uniforms.uTime > 0
    /\ lastFrame.cameraPosition = <<5, 8, 5>>

====
